---------------------------- MODULE Spec2Model ----------------------------
(***************************************************************************)
(* Model of stock_agent.py: the keyword sentiment scorer                   *)
(* (analyze_sentiment), the news aggregator (analyze_company_news), the    *)
(* indicator engine (analyze_stock_trend), the peer comparison             *)
(* (get_peer_comparison) and the read loop of main.                        *)
(*                                                                         *)
(* Texts are TLA+ strings; TLC evaluates Len, SubSeq and \o on them, so    *)
(* substring containment and lowercasing are computed character by         *)
(* character, as Python does.                                              *)
(*                                                                         *)
(* Labels are written with the names the specification uses:               *)
(*   "very_positive" = "매우 긍정", "positive" = "긍정",                   *)
(*   "neutral" = "중립", "negative" = "부정",                              *)
(*   "very_negative" = "매우 부정".                                        *)
(***************************************************************************)
EXTENDS Integers, Sequences, FiniteSets, TLC

VARIABLES
  text,        \* analyze_sentiment: the argument text
  sentiment,   \* analyze_sentiment: the returned dict, or Pending
  entries,     \* analyze_company_news: feed.entries, as the news provider supplied them
  newsResult,  \* analyze_company_news: the returned dict, or Pending
  fetch,       \* analyze_stock_trend: what stock.history() will do ("ok" / "raises")
  history,     \* analyze_stock_trend: the bars the price-history provider holds
  df,          \* analyze_stock_trend: the data frame the handler works on
  fetches,     \* analyze_stock_trend: number of calls of stock.history()
  trendResult, \* analyze_stock_trend: the returned dict, or Pending
  ticker,      \* get_peer_comparison: get_ticker(company_name)
  info,        \* get_peer_comparison: the company's info dict at the provider
  ownLookup,   \* get_peer_comparison: what the company's own lookup will do ("ok" / "raises")
  failing,     \* get_peer_comparison: the tickers whose lookup raises
  peerResult,  \* get_peer_comparison: the returned dict, or Pending
  typed,       \* main: the lines of the input stream
  consumed,    \* main: number of lines input() has consumed
  mainLoop,    \* main: "running" (at input()), "retrying" (in the handler of
               \* an input error) or "stopped" (after break)
  calls,       \* main: the arguments of the calls agent(user_input), in order
  agentRaises  \* main: the inputs on which agent() raises

vars ==
  <<text, sentiment, entries, newsResult, fetch, history, df, fetches, trendResult,
    ticker, info, ownLookup, failing, peerResult,
    typed, consumed, mainLoop, calls, agentRaises>>

sentimentVars == <<text, sentiment>>
newsVars == <<entries, newsResult>>
trendVars == <<fetch, history, df, fetches, trendResult>>
peerVars == <<ticker, info, ownLookup, failing, peerResult>>
mainVars == <<typed, consumed, mainLoop, calls, agentRaises>>

\* A call that has not returned yet.
Pending == [pending |-> TRUE]

\* None, NaN: Python's None and the float NaN.
None == [none |-> TRUE]
NaN == [nan |-> TRUE]

-----------------------------------------------------------------------------
(***************************************************************************)
(* analyze_sentiment                                                       *)
(***************************************************************************)

\* The lexicons, in dict insertion order (the order the loops visit them).
positive_keywords ==
  << <<"surge", 15>>, <<"soar", 15>>, <<"skyrocket", 15>>, <<"breakthrough", 15>>,
     <<"record high", 15>>,
     <<"beat", 12>>, <<"beats", 12>>, <<"exceed", 12>>, <<"exceeds", 12>>,
     <<"outperform", 12>>,
     <<"rise", 10>>, <<"rises", 10>>, <<"gain", 10>>, <<"gains", 10>>,
     <<"jump", 10>>, <<"jumps", 10>>,
     <<"rally", 10>>, <<"rallies", 10>>, <<"climb", 10>>, <<"climbs", 10>>,
     <<"boost", 10>>,
     <<"upgrade", 10>>, <<"upgrades", 10>>, <<"bullish", 10>>, <<"growth", 10>>,
     <<"profit", 10>>,
     <<"up", 5>>, <<"higher", 5>>, <<"positive", 5>>, <<"strong", 5>>, <<"buy", 5>>,
     <<"recover", 5>>, <<"recovery", 5>>, <<"improve", 5>>, <<"expansion", 5>>,
     <<"deal", 5>>,
     <<"partnership", 5>>, <<"innovation", 5>>, <<"launch", 5>>, <<"success", 5>>,
     <<"win", 5>> >>

negative_keywords ==
  << <<"crash", -15>>, <<"plunge", -15>>, <<"collapse", -15>>, <<"scandal", -15>>,
     <<"fraud", -15>>,
     <<"bankruptcy", -15>>, <<"lawsuit", -15>>, <<"investigation", -15>>,
     <<"fall", -10>>, <<"falls", -10>>, <<"drop", -10>>, <<"drops", -10>>,
     <<"decline", -10>>,
     <<"declines", -10>>, <<"tumble", -10>>, <<"sink", -10>>, <<"sinks", -10>>,
     <<"slump", -10>>,
     <<"downgrade", -10>>, <<"downgrades", -10>>, <<"bearish", -10>>,
     <<"loss", -10>>, <<"losses", -10>>,
     <<"down", -5>>, <<"lower", -5>>, <<"negative", -5>>, <<"weak", -5>>,
     <<"sell", -5>>,
     <<"concern", -5>>, <<"concerns", -5>>, <<"risk", -5>>, <<"risks", -5>>,
     <<"warning", -5>>,
     <<"cut", -5>>, <<"cuts", -5>>, <<"layoff", -5>>, <<"layoffs", -5>>,
     <<"miss", -5>>, <<"misses", -5>> >>

\* str.lower() on one character (the letters the inputs use; others are unchanged).
LowerChar(c) ==
  CASE c = "A" -> "a" [] c = "B" -> "b" [] c = "C" -> "c" [] c = "D" -> "d"
    [] c = "E" -> "e" [] c = "F" -> "f" [] c = "G" -> "g" [] c = "H" -> "h"
    [] c = "I" -> "i" [] c = "J" -> "j" [] c = "K" -> "k" [] c = "L" -> "l"
    [] c = "M" -> "m" [] c = "N" -> "n" [] c = "O" -> "o" [] c = "P" -> "p"
    [] c = "Q" -> "q" [] c = "R" -> "r" [] c = "S" -> "s" [] c = "T" -> "t"
    [] c = "U" -> "u" [] c = "V" -> "v" [] c = "W" -> "w" [] c = "X" -> "x"
    [] c = "Y" -> "y" [] c = "Z" -> "z" [] OTHER -> c

\* The characters lo..hi of s, each lowercased (split in halves to keep the
\* evaluation shallow).
RECURSIVE LowerRange(_, _, _)
LowerRange(s, lo, hi) ==
  IF lo > hi THEN ""
  ELSE IF lo = hi THEN LowerChar(SubSeq(s, lo, lo))
  ELSE LET mid == (lo + hi) \div 2
       IN  LowerRange(s, lo, mid) \o LowerRange(s, mid + 1, hi)

\* text.lower()
Lower(s) == LowerRange(s, 1, Len(s))

\* A containment test that only looks at the start of the text (startswith).
ContainsPrefixOnly(keyword, t) ==
  Len(keyword) <= Len(t) /\ SubSeq(t, 1, Len(keyword)) = keyword

\* keyword in text_lower: substring containment.
Contains(keyword, t) ==
  \E i \in 1..(Len(t) - Len(keyword) + 1) : SubSeq(t, i, i + Len(keyword) - 1) = keyword

\* The entries lo..hi of a lexicon met in the text: the sum of their weights
\* and their keywords in dictionary order (split in halves to keep the
\* evaluation shallow).
RECURSIVE ScanRange(_, _, _, _)
ScanRange(lexicon, text_lower, lo, hi) ==
  IF lo > hi THEN [score |-> 0, found |-> <<>>]
  ELSE IF lo = hi
       THEN IF Contains(lexicon[lo][1], text_lower)
            THEN [score |-> lexicon[lo][2], found |-> <<lexicon[lo][1]>>]
            ELSE [score |-> 0, found |-> <<>>]
  ELSE LET mid == (lo + hi) \div 2
           left == ScanRange(lexicon, text_lower, lo, mid)
           right == ScanRange(lexicon, text_lower, mid + 1, hi)
       IN  [score |-> left.score + right.score, found |-> left.found \o right.found]

\* One of the two for-loops over a lexicon: from entry i on, with the running
\* score and found list.
ScanKeywords(lexicon, text_lower, i, score, found) ==
  LET rest == ScanRange(lexicon, text_lower, i, Len(lexicon))
  IN  [score |-> score + rest.score, found |-> found \o rest.found]

\* The score left unclamped.
ClampMissing(score) == score

\* score = max(-100, min(100, score))
Clamp(score) ==
  LET lo == IF score < 100 THEN score ELSE 100
  IN  IF lo > -100 THEN lo ELSE -100

\* The label chain with strict comparisons (> and < for >= and <=).
SentimentLabelStrict(score) ==
  IF score > 20 THEN "very_positive"
  ELSE IF score > 5 THEN "positive"
  ELSE IF score < -20 THEN "very_negative"
  ELSE IF score < -5 THEN "negative"
  ELSE "neutral"

\* The label chain without the neutral band around 0.
SentimentLabelNoDeadBand(score) ==
  IF score >= 20 THEN "very_positive"
  ELSE IF score >= 0 THEN "positive"
  ELSE IF score <= -20 THEN "very_negative"
  ELSE "negative"

\* The if/elif chain that picks the label of one item.
SentimentLabel(score) ==
  IF score >= 20 THEN "very_positive"
  ELSE IF score >= 5 THEN "positive"
  ELSE IF score <= -20 THEN "very_negative"
  ELSE IF score <= -5 THEN "negative"
  ELSE "neutral"

analyze_sentiment(t) ==
  LET text_lower == Lower(t)
      pos == ScanKeywords(positive_keywords, text_lower, 1, 0, <<>>)
      neg == ScanKeywords(negative_keywords, text_lower, 1, pos.score, <<>>)
      score == Clamp(neg.score)
  IN  [score |-> score,
       label |-> SentimentLabel(score),
       positive_keywords |-> pos.found,
       negative_keywords |-> neg.found]

-----------------------------------------------------------------------------
(***************************************************************************)
(* analyze_company_news                                                    *)
(*                                                                         *)
(* An entry of the feed is a record with a title and a link, and with a    *)
(* published time unless the feed left it out.  The average is the exact   *)
(* quotient total_score / len(news_list), kept as numerator and            *)
(* denominator; the reported score round(avg_score, 1) is kept in tenths.  *)
(* The company and search_name fields of the result repeat the argument    *)
(* and are left out.  Every entry carries a title and a link, so the       *)
(* except branch (an error dict) is not taken.                             *)
(***************************************************************************)

\* The 5 of feed.entries[:5]
NewsCap == 5

Min(a, b) == IF a < b THEN a ELSE b

\* The slice taken from the wrong end: feed.entries[-5:]
LastEntries(es) == SubSeq(es, Len(es) - Min(Len(es), NewsCap) + 1, Len(es))

\* feed.entries[:5]
FirstEntries(es) == SubSeq(es, 1, Min(Len(es), NewsCap))

\* entry.get('published', 'N/A')
Published(entry) ==
  IF "published" \in DOMAIN entry THEN entry.published ELSE "N/A"

\* The dict appended to news_list for one entry.
NewsItem(entry) ==
  LET s == analyze_sentiment(entry.title)
  IN  [title |-> entry.title,
       published |-> Published(entry),
       link |-> entry.link,
       sentiment_score |-> s.score,
       sentiment_label |-> s.label,
       positive_keywords |-> s.positive_keywords,
       negative_keywords |-> s.negative_keywords]

\* The for-loop over the considered entries, from entry i on.
RECURSIVE CollectNews(_, _, _, _)
CollectNews(considered, i, news_list, total_score) ==
  IF i > Len(considered) THEN [news_list |-> news_list, total_score |-> total_score]
  ELSE LET item == NewsItem(considered[i])
       IN  CollectNews(considered, i + 1, Append(news_list, item),
                       total_score + item.sentiment_score)

\* avg_score = total_score / len(news_list) if news_list else 0
AverageScore(total_score, n) ==
  IF n > 0 THEN [num |-> total_score, den |-> n] ELSE [num |-> 0, den |-> 1]

\* The overall label taken with the thresholds of a single item (20 for 15).
OverallLabelItemThresholds(avg) ==
  IF avg.num >= 20 * avg.den THEN "very_positive"
  ELSE IF avg.num >= 5 * avg.den THEN "positive"
  ELSE IF avg.num <= -20 * avg.den THEN "very_negative"
  ELSE IF avg.num <= -5 * avg.den THEN "negative"
  ELSE "neutral"

\* The if/elif chain that picks the overall label (avg.den > 0).
OverallLabel(avg) ==
  IF avg.num >= 15 * avg.den THEN "very_positive"
  ELSE IF avg.num >= 5 * avg.den THEN "positive"
  ELSE IF avg.num <= -15 * avg.den THEN "very_negative"
  ELSE IF avg.num <= -5 * avg.den THEN "negative"
  ELSE "neutral"

\* A count that takes a score of 0 as positive.
RECURSIVE CountNonNegative(_)
CountNonNegative(news_list) ==
  IF news_list = <<>> THEN 0
  ELSE (IF Head(news_list).sentiment_score >= 0 THEN 1 ELSE 0)
       + CountNonNegative(Tail(news_list))

\* sum(1 for n in news_list if n["sentiment_score"] > 0), and the same for < 0.
RECURSIVE CountPositive(_)
CountPositive(news_list) ==
  IF news_list = <<>> THEN 0
  ELSE (IF Head(news_list).sentiment_score > 0 THEN 1 ELSE 0)
       + CountPositive(Tail(news_list))

\* A count of the items whose label is negative or very negative.
RECURSIVE CountNegativeLabels(_)
CountNegativeLabels(news_list) ==
  IF news_list = <<>> THEN 0
  ELSE (IF Head(news_list).sentiment_label \in {"negative", "very_negative"} THEN 1 ELSE 0)
       + CountNegativeLabels(Tail(news_list))

RECURSIVE CountNegative(_)
CountNegative(news_list) ==
  IF news_list = <<>> THEN 0
  ELSE (IF Head(news_list).sentiment_score < 0 THEN 1 ELSE 0)
       + CountNegative(Tail(news_list))

\* The average cut to one decimal place instead of rounded.
RoundTenthsFloor(avg) == (10 * avg.num) \div avg.den

\* round(avg_score, 1), in tenths: the nearest tenth, a tie going to the even
\* one.  (avg.den <= 5, so the float avg_score is a tie exactly when the quotient
\* is: quarters are exact in binary.)
RoundTenths(avg) ==
  LET q == (10 * avg.num) \div avg.den
      r == (10 * avg.num) - q * avg.den
  IN  IF 2 * r < avg.den THEN q
      ELSE IF 2 * r > avg.den THEN q + 1
      ELSE IF q % 2 = 0 THEN q ELSE q + 1

analyze_company_news(es) ==
  IF es = <<>>
  THEN [news_count |-> 0,
        news |-> <<>>,
        overall_sentiment |-> [score |-> 0, label |-> "neutral"],
        error |-> "no_news"]
  ELSE LET loop == CollectNews(FirstEntries(es), 1, <<>>, 0)
           news_list == loop.news_list
           avg_score == AverageScore(loop.total_score, Len(news_list))
           positive_count == CountPositive(news_list)
           negative_count == CountNegative(news_list)
       IN  [news_count |-> Len(news_list),
            news |-> news_list,
            overall_sentiment |->
              [score |-> RoundTenths(avg_score),
               label |-> OverallLabel(avg_score),
               positive_count |-> positive_count,
               negative_count |-> negative_count,
               neutral_count |-> Len(news_list) - positive_count - negative_count]]

-----------------------------------------------------------------------------
(***************************************************************************)
(* Exact arithmetic for the indicator engine.                              *)
(*                                                                         *)
(* Prices are integers.  A number of the engine is NaN or a quotient       *)
(* num / den of two "big" integers; a big integer <<a, b>> stands for      *)
(* a + b * 10^10, which holds the 1e-10 that replaces a zero average loss  *)
(* without leaving TLC's integers.  No product of two multiples of 10^10   *)
(* arises.  The quotients are exact where the floats of the program are    *)
(* rounded, and round(x, 2) of the returned dict is not applied: the       *)
(* snapshot holds the value round() is given.                              *)
(***************************************************************************)

Big(n) == <<n, 0>>
BigAdd(x, y) == <<x[1] + y[1], x[2] + y[2]>>
BigNeg(x) == <<-x[1], -x[2]>>
BigMul(x, y) == <<x[1] * y[1], x[1] * y[2] + x[2] * y[1]>>
BigSign(x) ==
  IF x[2] # 0 THEN (IF x[2] > 0 THEN 1 ELSE -1)
  ELSE IF x[1] > 0 THEN 1 ELSE IF x[1] < 0 THEN -1 ELSE 0
BigLeq(x, y) == BigSign(BigAdd(y, BigNeg(x))) >= 0

\* The quotient n / d of two integers (d > 0), and the quotient of two big integers
\* with the sign carried by the numerator.
Q(n, d) == [num |-> Big(n), den |-> Big(d)]
QNorm(num, den) ==
  IF BigSign(den) < 0 THEN [num |-> BigNeg(num), den |-> BigNeg(den)]
  ELSE [num |-> num, den |-> den]

QAdd(x, y) ==
  IF x = NaN \/ y = NaN THEN NaN
  ELSE QNorm(BigAdd(BigMul(x.num, y.den), BigMul(y.num, x.den)), BigMul(x.den, y.den))
QSub(x, y) ==
  IF x = NaN \/ y = NaN THEN NaN
  ELSE QNorm(BigAdd(BigMul(x.num, y.den), BigNeg(BigMul(y.num, x.den))),
             BigMul(x.den, y.den))
\* Division; dividing by zero (inf or NaN in numpy) does not arise and is NaN here.
QDiv(x, y) ==
  IF x = NaN \/ y = NaN THEN NaN
  ELSE IF BigSign(y.num) = 0 THEN NaN
  ELSE QNorm(BigMul(x.num, y.den), BigMul(x.den, y.num))
QNeg(x) == IF x = NaN THEN NaN ELSE [num |-> BigNeg(x.num), den |-> x.den]
QLeq(x, y) == BigLeq(BigMul(x.num, y.den), BigMul(y.num, x.den))
QSign(x) == BigSign(x.num)
QIsZero(x) == QSign(x) = 0

\* 1e-10
Epsilon == [num |-> <<1, 0>>, den |-> <<0, 1>>]

QMul(x, y) ==
  IF x = NaN \/ y = NaN THEN NaN
  ELSE [num |-> BigMul(x.num, y.num), den |-> BigMul(x.den, y.den)]
QEq(x, y) == QLeq(x, y) /\ QLeq(y, x)

\* The number 50 + 25 * z, for z with the sign z_sign and the square z_square: a
\* Bollinger position, which holds a square root (the standard deviation) and is
\* kept by the sign and the square of z = (price - middle) / std.  It is zero
\* exactly when z = -2.
BandPosition(sign, square) == [z_sign |-> sign, z_square |-> square]
IsBandPosition(x) == "z_sign" \in DOMAIN x
BandPositionIsZero(x) == x.z_sign < 0 /\ QEq(x.z_square, Q(4, 1))

\* Python's truth value of a float or None: None and 0.0 are false, NaN is true.
Truthy(x) ==
  /\ x # None
  /\ \/ x = NaN
     \/ IF IsBandPosition(x) THEN ~BandPositionIsZero(x) ELSE ~QIsZero(x)

-----------------------------------------------------------------------------
(***************************************************************************)
(* analyze_stock_trend                                                     *)
(*                                                                         *)
(* A bar is a record Open, High, Low, Close, Volume; the data frame is the *)
(* sequence of the bars, oldest first.                                     *)
(***************************************************************************)

\* rolling(window=14) of the RSI
RsiWindow == 14

\* xs[lo] + ... + xs[hi], summed by halves
RECURSIVE SumRange(_, _, _)
SumRange(xs, lo, hi) ==
  IF lo > hi THEN Q(0, 1)
  ELSE IF lo = hi THEN xs[lo]
  ELSE LET mid == (lo + hi) \div 2
       IN  QAdd(SumRange(xs, lo, mid), SumRange(xs, mid + 1, hi))

\* df['Close'], as floats
CloseOf(d) == [i \in 1..Len(d) |-> Q(d[i].Close, 1)]

\* xs.rolling(window=w).mean().iloc[i]: NaN until w values are there.
RollingMeanAt(xs, w, i) ==
  IF i < w THEN NaN ELSE QDiv(SumRange(xs, i - w + 1, i), Q(w, 1))

\* df['Close'].diff(): NaN at the first bar.
Diff(xs) == [i \in 1..Len(xs) |-> IF i = 1 THEN NaN ELSE QSub(xs[i], xs[i - 1])]

\* delta.where(delta > 0, 0) and -delta.where(delta < 0, 0): a NaN delta fails
\* the comparison and becomes 0.
GainOf(delta) ==
  [i \in 1..Len(delta) |->
     IF delta[i] # NaN /\ QSign(delta[i]) > 0 THEN delta[i] ELSE Q(0, 1)]
LossOf(delta) ==
  [i \in 1..Len(delta) |->
     IF delta[i] # NaN /\ QSign(delta[i]) < 0 THEN QNeg(delta[i]) ELSE Q(0, 1)]

\* loss.replace(0, 1e-10)
ReplaceZero(x) == IF x # NaN /\ QIsZero(x) THEN Epsilon ELSE x

\* The formula with a + for the first -.
RsiOfRsSignSlip(rs) == QAdd(Q(100, 1), QDiv(Q(100, 1), QAdd(Q(1, 1), rs)))

\* rsi = 100 - (100 / (1 + rs))
RsiOfRs(rs) == QSub(Q(100, 1), QDiv(Q(100, 1), QAdd(Q(1, 1), rs)))

\* rsi.iloc[-1]
LastRsi(d) ==
  LET delta == Diff(CloseOf(d))
      gain == RollingMeanAt(GainOf(delta), RsiWindow, Len(d))
      loss == RollingMeanAt(LossOf(delta), RsiWindow, Len(d))
      rs == QDiv(gain, ReplaceZero(loss))
  IN  RsiOfRs(rs)

\* current_rsi = rsi.iloc[-1] if len(df) >= 14 and not pd.isna(rsi.iloc[-1]) else None
CurrentRsi(d) ==
  IF Len(d) >= RsiWindow /\ LastRsi(d) # NaN THEN LastRsi(d) ELSE None

\* ma5, ma20, ma60: df['MA<w>'].iloc[-1] if len(df) >= w else None
MovingAverage(d, w) ==
  IF Len(d) >= w THEN RollingMeanAt(CloseOf(d), w, Len(d)) ELSE None

\* The frame after df['MA5'] = ..., df['MA20'] = ..., df['MA60'] = ...
WithMovingAverages(d) ==
  [i \in 1..Len(d) |->
     [Open |-> d[i].Open, High |-> d[i].High, Low |-> d[i].Low,
      Close |-> d[i].Close, Volume |-> d[i].Volume,
      MA5 |-> RollingMeanAt(CloseOf(d), 5, i),
      MA20 |-> RollingMeanAt(CloseOf(d), 20, i),
      MA60 |-> RollingMeanAt(CloseOf(d), 60, i)]]

\* A field written as round(x, 2) if x else None
IfTruthy(x) == IF Truthy(x) THEN x ELSE None

\* df.tail(n)
TailOf(d, n) == SubSeq(d, IF Len(d) > n THEN Len(d) - n + 1 ELSE 1, Len(d))

\* .max() and .min() of a column of integers
ColumnMax(xs) == CHOOSE m \in {xs[i] : i \in 1..Len(xs)} : \A i \in 1..Len(xs) : xs[i] <= m
ColumnMin(xs) == CHOOSE m \in {xs[i] : i \in 1..Len(xs)} : \A i \in 1..Len(xs) : m <= xs[i]

HighOf(d) == [i \in 1..Len(d) |-> d[i].High]
LowOf(d) == [i \in 1..Len(d) |-> d[i].Low]
VolumeOf(d) == [i \in 1..Len(d) |-> Q(d[i].Volume, 1)]

\* The volatility with the guard on the length alone.
VolatilityUnguarded(d) ==
  LET recent_30d == TailOf(d, 30)
      high == ColumnMax(HighOf(recent_30d))
      low == ColumnMin(LowOf(recent_30d))
  IN  IF Len(recent_30d) > 0
      THEN QMul(QDiv(Q(high - low, 1), Q(low, 1)), Q(100, 1))
      ELSE Q(0, 1)

\* volatility: the 30-bar range over the 30-bar low, in percent, or 0
Volatility(d) ==
  LET recent_30d == TailOf(d, 30)
      high == ColumnMax(HighOf(recent_30d))
      low == ColumnMin(LowOf(recent_30d))
  IN  IF Len(recent_30d) > 0 /\ low > 0
      THEN QMul(QDiv(Q(high - low, 1), Q(low, 1)), Q(100, 1))
      ELSE Q(0, 1)

\* volume_ratio: the last volume over the 20-bar average volume, in percent, or 0
VolumeRatio(d) ==
  LET tail == TailOf(d, 20)
      avg_volume == QDiv(SumRange(VolumeOf(tail), 1, Len(tail)), Q(Len(tail), 1))
      recent_volume == VolumeOf(d)[Len(d)]
  IN  IF QSign(avg_volume) > 0
      THEN QMul(QDiv(recent_volume, avg_volume), Q(100, 1))
      ELSE Q(0, 1)

\* period_return: the change from the first close, in percent, or 0
PeriodReturn(d) ==
  LET current_price == CloseOf(d)[Len(d)]
      start_price == CloseOf(d)[1]
  IN  IF QSign(start_price) > 0
      THEN QMul(QDiv(QSub(current_price, start_price), start_price), Q(100, 1))
      ELSE Q(0, 1)

\* The closes are all the same.
IsFlat(d) == \A i \in 1..Len(d) : d[i].Close = d[1].Close

\* A MACD field taken from 25 bars on.
MacdFieldFrom25(d, line) ==
  IF Len(d) >= 25
  THEN (IF IsFlat(d) THEN Q(0, 1) ELSE [ewm |-> line, close |-> [i \in 1..Len(d) |-> d[i].Close]])
  ELSE None

\* macd, macd_signal, macd_histogram: round(<line>.iloc[-1], 2) if len(df) >= 26
\* else None.  The exponential averages (spans 12, 26 and 9, adjust=False) of a
\* flat series are its close, so that the three lines are 0; of any other series
\* the line is kept as the expression it is, its name and the closes it is taken
\* from (its value has the denominator 13^L * 27^L * 5^L).
MacdField(d, line) ==
  IF Len(d) >= 26
  THEN (IF IsFlat(d) THEN Q(0, 1) ELSE [ewm |-> line, close |-> [i \in 1..Len(d) |-> d[i].Close]])
  ELSE None

RECURSIVE SumInts(_, _, _)
SumInts(xs, lo, hi) ==
  IF lo > hi THEN 0
  ELSE IF lo = hi THEN xs[lo]
  ELSE LET mid == (lo + hi) \div 2
       IN  SumInts(xs, lo, mid) + SumInts(xs, mid + 1, hi)

\* The square of df['Close'].rolling(window=w).std().iloc[-1]: the sample
\* variance (ddof = 1) of the last w closes, (w * sum x^2 - (sum x)^2) / (w * (w - 1)).
LastRollingVar(d, w) ==
  LET close == [i \in 1..Len(d) |-> d[i].Close]
      squares == [i \in 1..Len(d) |-> close[i] * close[i]]
      s == SumInts(close, Len(d) - w + 1, Len(d))
  IN  Q(w * SumInts(squares, Len(d) - w + 1, Len(d)) - s * s, w * (w - 1))

\* The position computed without the guard on the width.
BollingerPositionUnguarded(d) ==
  IF Len(d) >= 20
  THEN LET current_price == CloseOf(d)[Len(d)]
           bb_middle == RollingMeanAt(CloseOf(d), 20, Len(d))
           variance == LastRollingVar(d, 20)
           deviation == QSub(current_price, bb_middle)
       IN  IF QSign(variance) > 0
           THEN BandPosition(QSign(deviation), QDiv(QMul(deviation, deviation), variance))
           ELSE NaN
  ELSE None

\* bb_position.  With bb_upper = bb_middle + 2 std and bb_lower = bb_middle - 2 std,
\* bb_width = 4 std is positive exactly when the variance is, and
\* (current_price - bb_lower) / bb_width * 100 = 50 + 25 * (current_price - bb_middle) / std.
BollingerPosition(d) ==
  IF Len(d) >= 20
  THEN LET current_price == CloseOf(d)[Len(d)]
           bb_middle == RollingMeanAt(CloseOf(d), 20, Len(d))
           variance == LastRollingVar(d, 20)
           deviation == QSub(current_price, bb_middle)
       IN  IF QSign(variance) > 0
           THEN BandPosition(QSign(deviation), QDiv(QMul(deviation, deviation), variance))
           ELSE Q(50, 1)
  ELSE None

\* The values of cross_signal
GoldenCross == [cross |-> "golden_cross"]
DeadCross == [cross |-> "dead_cross"]

\* cross_signal: None unless ma5 and ma20 are true values and there are 21 bars,
\* then the comparison of the two averages at the last two bars.
CrossSignal(d) ==
  LET ma5 == MovingAverage(d, 5)
      ma20 == MovingAverage(d, 20)
  IN  IF Truthy(ma5) /\ Truthy(ma20) /\ Len(d) >= 21
      THEN LET prev_ma5 == RollingMeanAt(CloseOf(d), 5, Len(d) - 1)
               prev_ma20 == RollingMeanAt(CloseOf(d), 20, Len(d) - 1)
           IN  IF QLeq(prev_ma5, prev_ma20) /\ ~QLeq(ma5, ma20) THEN GoldenCross
               ELSE IF QLeq(prev_ma20, prev_ma5) /\ ~QLeq(ma20, ma5) THEN DeadCross
               ELSE None
      ELSE None

\* An emptiness test that also takes a single bar as no data.
IsEmptyOrSingle(d) == Len(d) <= 1

\* df.empty
IsEmpty(d) == Len(d) = 0

\* The returned dict for the bars d the provider returned (without company,
\* ticker and period, which repeat the arguments).
TrendSnapshot(d) ==
  [current_price |-> CloseOf(d)[Len(d)],
   period_return |-> PeriodReturn(d),
   ma5 |-> IfTruthy(MovingAverage(d, 5)),
   ma20 |-> IfTruthy(MovingAverage(d, 20)),
   ma60 |-> IfTruthy(MovingAverage(d, 60)),
   rsi |-> IfTruthy(CurrentRsi(d)),
   macd |-> MacdField(d, "macd"),
   macd_signal |-> MacdField(d, "signal"),
   macd_histogram |-> MacdField(d, "macd_histogram"),
   bb_position |-> IfTruthy(BollingerPosition(d)),
   cross_signal |-> CrossSignal(d),
   volatility |-> Volatility(d),
   volume_ratio |-> VolumeRatio(d),
   highest |-> Q(ColumnMax(HighOf(d)), 1),
   lowest |-> Q(ColumnMin(LowOf(d)), 1)]

-----------------------------------------------------------------------------
(***************************************************************************)
(* get_peer_comparison                                                     *)
(*                                                                         *)
(* An info dict is a record of the keys the provider filled in, its        *)
(* numbers quotients as above.  The returned dict is modelled without the  *)
(* company name, which repeats the argument.                               *)
(***************************************************************************)

\* data.get(key, default)
DictGet(data, key, default) == IF key \in DOMAIN data THEN data[key] ELSE default

\* industry_peers.get(industry, [])
industry_peers(industry) ==
  CASE industry = "Semiconductors" -> <<"NVDA", "AMD", "INTC", "TSM", "AVGO">>
    [] industry = "Semiconductor Equipment & Materials" -> <<"ASML", "AMAT", "LRCX", "KLAC">>
    [] industry = "Consumer Electronics" -> <<"AAPL", "005930.KS", "SONY", "066570.KS">>
    [] industry = "Internet Content & Information" ->
         <<"GOOGL", "META", "035420.KS", "035720.KS">>
    [] industry = "Software - Infrastructure" -> <<"MSFT", "ORCL", "CRM", "NOW">>
    [] industry = "Auto Manufacturers" -> <<"TSLA", "TM", "F", "GM", "005380.KS">>
    [] industry = "Internet Retail" -> <<"AMZN", "BABA", "JD", "EBAY">>
    [] industry = "Information Technology Services" -> <<"IBM", "ACN", "INFY">>
    [] OTHER -> <<>>

\* sector_defaults.get(sector, [])
sector_defaults(sector) ==
  CASE sector = "Technology" -> <<"AAPL", "MSFT", "GOOGL", "META", "NVDA">>
    [] sector = "Consumer Cyclical" -> <<"AMZN", "TSLA", "HD", "NKE">>
    [] sector = "Communication Services" -> <<"GOOGL", "META", "NFLX", "DIS">>
    [] sector = "Financial Services" -> <<"JPM", "BAC", "GS", "MS">>
    [] sector = "Healthcare" -> <<"JNJ", "UNH", "PFE", "ABBV">>
    [] OTHER -> <<>>

\* The peers of the industry, or of the sector when the industry has none.
PeerList(sector, industry) ==
  IF industry_peers(industry) # <<>> THEN industry_peers(industry)
  ELSE sector_defaults(sector)

\* The greatest number of peers compared
PeerCap == 4

\* [t for t in peer_tickers if t != ticker][:4]
CandidatePeers(peer_tickers, own) ==
  LET Other(t) == t # own
      others == SelectSeq(peer_tickers, Other)
  IN  SubSeq(others, 1, Min(Len(others), PeerCap))

\* safe_get(data, key, multiplier), before round()
safe_get(data, key, multiplier) ==
  IF key \in DOMAIN data THEN QMul(data[key], Q(multiplier, 1)) ELSE None

\* company_data and the dict appended to peers_data
MetricsOf(symbol, data) ==
  [ticker |-> symbol,
   pe_ratio |-> safe_get(data, "trailingPE", 1),
   pb_ratio |-> safe_get(data, "priceToBook", 1),
   ps_ratio |-> safe_get(data, "priceToSalesTrailing12Months", 1),
   roe |-> safe_get(data, "returnOnEquity", 100),
   profit_margin |-> safe_get(data, "profitMargins", 100),
   revenue_growth |-> safe_get(data, "revenueGrowth", 100),
   market_cap |-> DictGet(data, "marketCap", None),
   beta |-> safe_get(data, "beta", 1)]

\* yf.Ticker(peer_ticker).info of a peer whose lookup succeeds
ProviderInfo(symbol) ==
  CASE symbol = "NVDA" ->
         [shortName |-> "NVIDIA", trailingPE |-> Q(40, 1), returnOnEquity |-> Q(1, 2),
          marketCap |-> Q(3000, 1)]
    [] symbol = "AMD" -> [shortName |-> "AMD", returnOnEquity |-> Q(0, 1)]
    [] symbol = "INTC" -> [trailingPE |-> Q(0, 1), priceToBook |-> Q(1, 1)]
    [] symbol = "IBM" -> [shortName |-> "IBM", trailingPE |-> Q(20, 1), beta |-> Q(1, 2)]
    [] OTHER -> [shortName |-> symbol, trailingPE |-> Q(10, 1), priceToBook |-> Q(3, 1)]

\* The entry of a peer: its ticker, its name (the ticker when the provider has
\* no shortName) and its metrics.
PeerEntry(peer_ticker) ==
  LET peer_info == ProviderInfo(peer_ticker)
      metrics == MetricsOf(peer_ticker, peer_info)
  IN  [ticker |-> peer_ticker,
       name |-> DictGet(peer_info, "shortName", peer_ticker),
       pe_ratio |-> metrics.pe_ratio,
       pb_ratio |-> metrics.pb_ratio,
       ps_ratio |-> metrics.ps_ratio,
       roe |-> metrics.roe,
       profit_margin |-> metrics.profit_margin,
       revenue_growth |-> metrics.revenue_growth,
       market_cap |-> metrics.market_cap,
       beta |-> metrics.beta]

\* The loop ended by the first lookup that raises.
RECURSIVE CollectPeersUntilFailure(_, _, _, _)
CollectPeersUntilFailure(peer_tickers, raising, i, peers_data) ==
  IF i > Len(peer_tickers) \/ peer_tickers[i] \in raising THEN peers_data
  ELSE CollectPeersUntilFailure(peer_tickers, raising, i + 1,
                                Append(peers_data, PeerEntry(peer_tickers[i])))

\* for peer_ticker in peer_tickers: try: ... peers_data.append(...)
\* except Exception: continue
RECURSIVE CollectPeers(_, _, _, _)
CollectPeers(peer_tickers, raising, i, peers_data) ==
  IF i > Len(peer_tickers) THEN peers_data
  ELSE IF peer_tickers[i] \in raising
  THEN CollectPeers(peer_tickers, raising, i + 1, peers_data)
  ELSE CollectPeers(peer_tickers, raising, i + 1,
                    Append(peers_data, PeerEntry(peer_tickers[i])))

\* calc_average(key), before round()
calc_average(key, peers_data, company_data) ==
  LET HasValue(p) == p[key] # None
      known == SelectSeq(peers_data, HasValue)
      of_peers == [i \in 1..Len(known) |-> known[i][key]]
      values == IF company_data[key] # None
                THEN Append(of_peers, company_data[key]) ELSE of_peers
  IN  IF values # <<>>
      THEN QDiv(SumRange(values, 1, Len(values)), Q(Len(values), 1))
      ELSE None

\* evaluate_position(company_val, avg_val, metric_type), its values written
\*   "very_undervalued" = "매우 저평가", "undervalued" = "저평가",
\*   "very_overvalued" = "매우 고평가", "overvalued" = "고평가", "fair" = "적정",
\*   "top_of_industry" = "업종 상위", "above_average" = "업종 평균 이상",
\*   "bottom_of_industry" = "업종 하위", "below_average" = "업종 평균 이하",
\*   "average" = "업종 평균".
evaluate_position(company_val, avg_val, metric_type) ==
  IF company_val = None \/ avg_val = None THEN "N/A"
  ELSE LET diff_pct ==
             IF ~QIsZero(avg_val)
             THEN QMul(QDiv(QSub(company_val, avg_val), avg_val), Q(100, 1))
             ELSE Q(0, 1)
       IN  IF metric_type \in {"pe_ratio", "pb_ratio", "ps_ratio"}
           THEN IF QLeq(diff_pct, Q(-20, 1)) THEN "very_undervalued"
                ELSE IF QLeq(diff_pct, Q(-5, 1)) THEN "undervalued"
                ELSE IF QLeq(Q(20, 1), diff_pct) THEN "very_overvalued"
                ELSE IF QLeq(Q(5, 1), diff_pct) THEN "overvalued"
                ELSE "fair"
           ELSE IF QLeq(Q(20, 1), diff_pct) THEN "top_of_industry"
                ELSE IF QLeq(Q(5, 1), diff_pct) THEN "above_average"
                ELSE IF QLeq(diff_pct, Q(-20, 1)) THEN "bottom_of_industry"
                ELSE IF QLeq(diff_pct, Q(-5, 1)) THEN "below_average"
                ELSE "average"

ComparedMetrics ==
  {"pe_ratio", "pb_ratio", "ps_ratio", "roe", "profit_margin", "revenue_growth"}

\* The returned dict for the company `symbol` whose own lookup does `lookup` and
\* returns `data`, when the lookups of the tickers in `raising` raise.
get_peer_comparison(symbol, lookup, data, raising) ==
  IF lookup = "raises" THEN [error |-> "fetch_failed"]
  ELSE LET sector == DictGet(data, "sector", "N/A")
           industry == DictGet(data, "industry", "N/A")
           peer_tickers == CandidatePeers(PeerList(sector, industry), symbol)
           company_data == MetricsOf(symbol, data)
           peers_data == CollectPeers(peer_tickers, raising, 1, <<>>)
           industry_avg ==
             [key \in ComparedMetrics |-> calc_average(key, peers_data, company_data)]
       IN  [ticker |-> symbol,
            sector |-> sector,
            industry |-> industry,
            company_metrics |-> company_data,
            peers |-> peers_data,
            industry_average |-> industry_avg,
            relative_position |->
              [key \in ComparedMetrics |->
                 evaluate_position(company_data[key], industry_avg[key], key)],
            peer_count |-> Len(peers_data)]

-----------------------------------------------------------------------------
(***************************************************************************)
(* main: the read loop                                                     *)
(*                                                                         *)
(* A line of the input stream is [text |-> s], which input() returns as s, *)
(* or [undecodable |-> TRUE], on which input() raises UnicodeDecodeError.  *)
(* At the end of the stream input() raises EOFError.                       *)
(***************************************************************************)

IsSpace(c) == c \in {" ", "\t"}

RECURSIVE StripLeft(_)
StripLeft(s) ==
  IF Len(s) > 0 /\ IsSpace(SubSeq(s, 1, 1)) THEN StripLeft(SubSeq(s, 2, Len(s))) ELSE s

RECURSIVE StripRight(_)
StripRight(s) ==
  IF Len(s) > 0 /\ IsSpace(SubSeq(s, Len(s), Len(s)))
  THEN StripRight(SubSeq(s, 1, Len(s) - 1)) ELSE s

\* s.strip()
Strip(s) == StripRight(StripLeft(s))

\* A test for the quit command that is not lowercased first.
IsQuitCaseSensitive(user_input) == user_input \in {"quit", "exit", "종료"}

\* user_input.lower() in ['quit', 'exit', '종료']
IsQuit(user_input) == Lower(user_input) \in {"quit", "exit", "종료"}

-----------------------------------------------------------------------------
(***************************************************************************)
(* Inputs of the scorer: every concatenation of at most MaxTokens tokens.  *)
(***************************************************************************)

MaxTokens == 2

\* A text holding every positive keyword, and one holding every negative keyword.
AllPositiveText ==
  "surge soar skyrocket breakthrough record high beats exceeds outperform rises "
  \o "gains jumps rally rallies climbs boost upgrades bullish growth profit higher "
  \o "positive strong buy recovery improve expansion deal partnership innovation "
  \o "launch success win"

AllNegativeText ==
  "crash plunge collapse scandal fraud bankruptcy lawsuit investigation falls drops "
  \o "declines tumble sinks slump downgrades bearish losses lower negative weak sell "
  \o "concerns risks warning cuts layoffs misses"

Tokens ==
  { "Stock SURGES on earnings beat", "shares plunge amid fraud investigation",
    "Q3 report", "record ", "high", "Beats", "UPGRADE", "win", "falls",
    AllPositiveText, AllNegativeText }

RECURSIVE TextsUpTo(_)
TextsUpTo(n) ==
  IF n = 0 THEN {""}
  ELSE LET shorter == TextsUpTo(n - 1)
       IN  shorter \cup {s \o tok : s \in shorter, tok \in Tokens}

Texts == TextsUpTo(MaxTokens)

-----------------------------------------------------------------------------
(***************************************************************************)
(* Specification of the scorer alone.                                      *)
(***************************************************************************)

SentimentIdle == text = "" /\ sentiment = Pending
NewsIdle == entries = <<>> /\ newsResult = Pending
TrendIdle ==
  fetch = "ok" /\ history = <<>> /\ df = <<>> /\ fetches = 0 /\ trendResult = Pending
PeerIdle ==
  /\ ticker = ""
  /\ info = [symbol |-> ""]
  /\ ownLookup = "ok"
  /\ failing = {}
  /\ peerResult = Pending
MainIdle ==
  /\ typed = <<>>
  /\ consumed = 0
  /\ mainLoop = "running"
  /\ calls = <<>>
  /\ agentRaises = {}

InitSentiment ==
  /\ text \in Texts
  /\ sentiment = Pending
  /\ NewsIdle
  /\ TrendIdle
  /\ PeerIdle
  /\ MainIdle

\* A call analyze_sentiment(text).
AnalyzeSentiment ==
  /\ sentiment = Pending
  /\ sentiment' = analyze_sentiment(text)
  /\ UNCHANGED <<text, newsVars, trendVars, peerVars, mainVars>>

NextSentiment == AnalyzeSentiment

SpecSentiment == InitSentiment /\ [][NextSentiment]_vars

-----------------------------------------------------------------------------
(***************************************************************************)
(* Specification of the aggregator: the provider supplies at most          *)
(* MaxEntries entries, in any order, each one of FeedItems.                *)
(***************************************************************************)

MaxEntries == 6

FeedItems ==
  { [title |-> "Beat up", published |-> "Mon", link |-> "l/1"],
    [title |-> "Q3", link |-> "l/2"],
    [title |-> "Fraud", published |-> "Fri", link |-> "l/3"] }

RECURSIVE FeedsUpTo(_)
FeedsUpTo(n) ==
  IF n = 0 THEN {<<>>}
  ELSE LET shorter == FeedsUpTo(n - 1)
       IN  shorter \cup {Append(es, e) : es \in shorter, e \in FeedItems}

InitNews ==
  /\ entries \in FeedsUpTo(MaxEntries)
  /\ newsResult = Pending
  /\ SentimentIdle
  /\ TrendIdle
  /\ PeerIdle
  /\ MainIdle

\* A call analyze_company_news(company_name) whose feed holds `entries`.
AnalyzeCompanyNews ==
  /\ newsResult = Pending
  /\ newsResult' = analyze_company_news(entries)
  /\ UNCHANGED <<entries, sentimentVars, trendVars, peerVars, mainVars>>

NextNews == AnalyzeCompanyNews

SpecNews == InitNews /\ [][NextNews]_vars

-----------------------------------------------------------------------------
(***************************************************************************)
(* Specification of the aggregator over titles of every kind of score: at  *)
(* most MaxLabelled entries, each one of LabelledItems, which adds to       *)
(* FeedItems a title of score 2 and one of score -3.                       *)
(***************************************************************************)

MaxLabelled == 4

LabelledItems ==
  FeedItems \cup
    { [title |-> "Beat fall", published |-> "Tue", link |-> "l/4"],
      [title |-> "Fraud beat", published |-> "Wed", link |-> "l/5"] }

RECURSIVE LabelledFeedsUpTo(_)
LabelledFeedsUpTo(n) ==
  IF n = 0 THEN {<<>>}
  ELSE LET shorter == LabelledFeedsUpTo(n - 1)
       IN  shorter \cup {Append(es, e) : es \in shorter, e \in LabelledItems}

InitNewsLabels ==
  /\ entries \in LabelledFeedsUpTo(MaxLabelled)
  /\ newsResult = Pending
  /\ SentimentIdle
  /\ TrendIdle
  /\ PeerIdle
  /\ MainIdle

SpecNewsLabels == InitNewsLabels /\ [][NextNews]_vars

-----------------------------------------------------------------------------
(***************************************************************************)
(* Specification of the indicator engine.  The provider holds no bar, or   *)
(* a first bar followed by at most two runs of at most MaxRun bars, each   *)
(* run rising by one, flat, or falling by one per bar, or one of the       *)
(* series of SpecialHistories; or its call raises.                         *)
(***************************************************************************)

MaxRun == 13

StartPrices == {0, 20}
Steps == {-1, 0, 1}

BarAt(close) ==
  [Open |-> close, High |-> close, Low |-> close, Close |-> close, Volume |-> 1]

\* bars continued by n bars, each `step` above the one before.
RECURSIVE Extend(_, _, _)
Extend(bars, step, n) ==
  IF n = 0 THEN bars
  ELSE Extend(Append(bars, BarAt(bars[Len(bars)].Close + step)), step, n - 1)

Histories ==
  LET starts == {<<BarAt(p)>> : p \in StartPrices}
      one == {Extend(b, s, n) : b \in starts, s \in Steps, n \in 1..MaxRun}
      two == {Extend(b, s, n) : b \in one, s \in Steps, n \in 1..MaxRun}
  IN  {<<>>} \cup starts \cup one \cup two

Repeat(x, n) == [i \in 1..n |-> x]

\* The bars closing at `closes`, each with the volume `volume` and the range
\* `spread` below and above its close.
BarsOf(closes, spread, volume) ==
  [i \in 1..Len(closes) |->
     [Open |-> closes[i], High |-> closes[i] + spread, Low |-> closes[i] - spread,
      Close |-> closes[i], Volume |-> volume]]

SpecialHistories ==
  { \* the two averages are equal at the last bar
    BarsOf(Repeat(100, 19) \o <<99, 101>>, 0, 1),
    \* equal averages, then the short one above, and then the short one below
    BarsOf(Repeat(20, 20) \o <<30>>, 0, 1),
    BarsOf(Repeat(20, 20) \o <<10>>, 0, 1),
    \* the short average falls through the long one to 0
    BarsOf(Repeat(0, 15) \o <<10>> \o Repeat(0, 5), 0, 1),
    \* mean 14 and deviation 2 over twenty bars, the last close 10 on the lower band
    BarsOf(<<14>> \o Repeat(12, 7) \o Repeat(16, 7) \o Repeat(15, 4) \o <<10>>, 0, 1),
    \* twenty equal closes after a different one
    BarsOf(<<5>> \o Repeat(20, 20), 0, 1),
    \* no volume traded
    BarsOf(Repeat(20, 3), 0, 0),
    BarsOf(<<20, 21, 22>>, 0, 0),
    \* a first close of 0, a low of 0 and no volume traded
    BarsOf(<<0, 1, 2>>, 0, 0),
    \* a low of 0 under positive closes
    BarsOf(<<1, 2, 1>>, 1, 3),
    \* 59 and 60 bars
    BarsOf(Repeat(20, 59), 0, 1),
    BarsOf(Repeat(20, 60), 0, 1),
    BarsOf(Repeat(0, 60), 0, 1) }

InitTrend ==
  /\ fetch \in {"ok", "raises"}
  /\ history \in Histories \cup SpecialHistories
  /\ df = <<>>
  /\ fetches = 0
  /\ trendResult = Pending
  /\ SentimentIdle
  /\ NewsIdle
  /\ PeerIdle
  /\ MainIdle

\* A call analyze_stock_trend(company_name, period).
AnalyzeStockTrend ==
  /\ trendResult = Pending
  /\ fetches' = fetches + 1
  /\ IF fetch = "raises"
     THEN /\ trendResult' = [error |-> "fetch_failed"]
          /\ df' = df
     ELSE IF IsEmpty(history)
     THEN /\ trendResult' = [error |-> "no_data"]
          /\ df' = history
     ELSE /\ trendResult' = TrendSnapshot(history)
          /\ df' = WithMovingAverages(history)
  /\ UNCHANGED <<fetch, history, sentimentVars, newsVars, peerVars, mainVars>>

NextTrend == AnalyzeStockTrend

SpecTrend == InitTrend /\ [][NextTrend]_vars

-----------------------------------------------------------------------------
(***************************************************************************)
(* Specification of the peer comparison: a company of OwnTickers with one  *)
(* of the info dicts OwnInfos, and any set of peers whose lookup raises.   *)
(***************************************************************************)

OwnTickers == {"NVDA", "AVGO", "IBM", "XOM"}

OwnInfos ==
  { [sector |-> "Technology", industry |-> "Semiconductors",
     trailingPE |-> Q(40, 1), returnOnEquity |-> Q(1, 4)],
    [sector |-> "Technology", industry |-> "Information Technology Services",
     trailingPE |-> Q(0, 1)],
    \* an industry without a peer list: the peers of the sector
    [sector |-> "Technology", industry |-> "Computer Hardware",
     priceToBook |-> Q(2, 1)],
    \* neither the industry nor the sector has peers
    [sector |-> "Energy", industry |-> "Oil & Gas Integrated", trailingPE |-> Q(12, 1)],
    \* no sector and no industry
    [shortName |-> "Unlisted"] }

TickersOf(list) == {list[i] : i \in 1..Len(list)}

InitPeers ==
  /\ ticker \in OwnTickers
  /\ info \in OwnInfos
  /\ ownLookup \in {"ok", "raises"}
  /\ failing \in SUBSET TickersOf(PeerList(DictGet(info, "sector", "N/A"),
                                          DictGet(info, "industry", "N/A")))
  /\ peerResult = Pending
  /\ SentimentIdle
  /\ NewsIdle
  /\ TrendIdle
  /\ MainIdle

\* A call get_peer_comparison(company_name).
GetPeerComparison ==
  /\ peerResult = Pending
  /\ peerResult' = get_peer_comparison(ticker, ownLookup, info, failing)
  /\ UNCHANGED <<ticker, info, ownLookup, failing, sentimentVars, newsVars, trendVars,
                 mainVars>>

NextPeers == GetPeerComparison

SpecPeers == InitPeers /\ [][NextPeers]_vars

-----------------------------------------------------------------------------
(***************************************************************************)
(* Specification of the read loop: the input stream holds at most MaxLines *)
(* lines, each one of Lines; the agent raises on the inputs of             *)
(* agentRaises.  Every action is one pass of `while True`, but that a pass  *)
(* in which input() raises is two: the exception, and its handler.  The    *)
(* loop keeps running while it can (weak fairness of its steps).           *)
(***************************************************************************)

MaxLines == 3

Lines ==
  { [text |-> "quit"], [text |-> " EXIT "], [text |-> "종료"],
    [text |-> "  "],
    [text |-> " AAPL "], [text |-> "tsla"],
    [undecodable |-> TRUE] }

RECURSIVE StreamsUpTo(_)
StreamsUpTo(n) ==
  IF n = 0 THEN {<<>>}
  ELSE LET shorter == StreamsUpTo(n - 1)
       IN  shorter \cup {Append(ls, l) : ls \in shorter, l \in Lines}

InitMain ==
  /\ typed \in StreamsUpTo(MaxLines)
  /\ consumed = 0
  /\ mainLoop = "running"
  /\ calls = <<>>
  /\ agentRaises \in SUBSET {"AAPL"}
  /\ SentimentIdle
  /\ NewsIdle
  /\ TrendIdle
  /\ PeerIdle

\* The loop is at input() and the stream has a next line, which is decodable.
AtLine == mainLoop = "running" /\ consumed < Len(typed)
NextLine == typed[consumed + 1]
ReadsText == AtLine /\ "text" \in DOMAIN NextLine

\* input() raises EOFError at the end of the stream.
ReadEof ==
  /\ mainLoop = "running"
  /\ consumed = Len(typed)
  /\ mainLoop' = "retrying"
  /\ UNCHANGED <<typed, consumed, calls, agentRaises,
                 sentimentVars, newsVars, trendVars, peerVars>>

\* input() raises UnicodeDecodeError on a line.
ReadUndecodable ==
  /\ AtLine
  /\ "text" \notin DOMAIN NextLine
  /\ consumed' = consumed + 1
  /\ mainLoop' = "retrying"
  /\ UNCHANGED <<typed, calls, agentRaises,
                 sentimentVars, newsVars, trendVars, peerVars>>

\* except (UnicodeDecodeError, EOFError): the message is printed and the loop
\* continues with the next pass.
Retry ==
  /\ mainLoop = "retrying"
  /\ mainLoop' = "running"
  /\ UNCHANGED <<typed, consumed, calls, agentRaises,
                 sentimentVars, newsVars, trendVars, peerVars>>

\* A quit command is read: break.
ReadQuit ==
  /\ ReadsText
  /\ IsQuit(Strip(NextLine.text))
  /\ consumed' = consumed + 1
  /\ mainLoop' = "stopped"
  /\ UNCHANGED <<typed, calls, agentRaises,
                 sentimentVars, newsVars, trendVars, peerVars>>

\* A blank line is read: continue.
ReadBlank ==
  /\ ReadsText
  /\ ~IsQuit(Strip(NextLine.text))
  /\ Strip(NextLine.text) = ""
  /\ consumed' = consumed + 1
  /\ UNCHANGED <<typed, mainLoop, calls, agentRaises,
                 sentimentVars, newsVars, trendVars, peerVars>>

\* Any other line is read: agent(user_input) is called, and its response or
\* the message of its exception is printed.
AskAgent ==
  /\ ReadsText
  /\ ~IsQuit(Strip(NextLine.text))
  /\ Strip(NextLine.text) # ""
  /\ consumed' = consumed + 1
  /\ calls' = Append(calls,
                     [user_input |-> Strip(NextLine.text),
                      outcome |-> IF Strip(NextLine.text) \in agentRaises
                                  THEN "raised" ELSE "answered"])
  /\ UNCHANGED <<typed, mainLoop, agentRaises,
                 sentimentVars, newsVars, trendVars, peerVars>>

NextMain == ReadEof \/ ReadUndecodable \/ Retry \/ ReadQuit \/ ReadBlank \/ AskAgent

SpecMain == InitMain /\ [][NextMain]_vars /\ WF_vars(NextMain)

-----------------------------------------------------------------------------
(***************************************************************************)
(* Properties of the scorer.                                               *)
(***************************************************************************)

\* k occurs in t at some position, compared character by character.
Occurs(k, t) ==
  \E i \in 0..(Len(t) - Len(k)) :
    \A j \in 1..Len(k) : SubSeq(t, i + j, i + j) = SubSeq(k, j, j)

Keywords(lexicon) == {lexicon[i][1] : i \in 1..Len(lexicon)}
WeightOf(lexicon, k) == lexicon[CHOOSE i \in 1..Len(lexicon) : lexicon[i][1] = k][2]
Present(lexicon, t) == {k \in Keywords(lexicon) : Occurs(k, t)}

\* The sum of w times the number of keywords of ks weighing w, over the weights ws
\* (a lexicon has few distinct weights, so the evaluation stays shallow).
RECURSIVE SumByWeight(_, _, _)
SumByWeight(lexicon, ks, ws) ==
  IF ws = {} THEN 0
  ELSE LET w == CHOOSE x \in ws : TRUE
       IN  w * Cardinality({k \in ks : WeightOf(lexicon, k) = w})
             + SumByWeight(lexicon, ks, ws \ {w})

SumOfWeights(lexicon, ks) ==
  SumByWeight(lexicon, ks, {WeightOf(lexicon, k) : k \in ks})

Range(f) == {f[i] : i \in DOMAIN f}
NoDuplicates(f) == \A i, j \in DOMAIN f : f[i] = f[j] => i = j

Labels == {"very_positive", "positive", "neutral", "negative", "very_negative"}

\* The labels whose threshold condition a score meets.
LabelsMeeting(score) ==
  {l \in Labels :
     \/ l = "very_positive" /\ score >= 20
     \/ l = "positive" /\ 5 <= score /\ score < 20
     \/ l = "very_negative" /\ score <= -20
     \/ l = "negative" /\ -20 < score /\ score <= -5
     \/ l = "neutral" /\ -5 < score /\ score < 5}

\* C1: the score analyze_sentiment returns is an integer in [-100, 100], for every
\* text, a text holding every positive or every negative keyword included.
C1_ScoreInRange ==
  sentiment # Pending => sentiment.score \in -100..100

\* A text holding every positive keyword was scored, and the clamp cut its sum to 100.
C1_Witness ==
  /\ sentiment # Pending
  /\ Present(positive_keywords, Lower(text)) = Keywords(positive_keywords)
  /\ SumOfWeights(positive_keywords, Present(positive_keywords, Lower(text))) > 100
  /\ sentiment.score = 100

\* C2: the score is the sum of the weights of the lexicon keywords occurring in the
\* lowercased text, each distinct keyword counted once and independently, clamped
\* to [-100, 100]; the matched collections are exactly the occurring keywords of
\* each lexicon, without duplicates.
C2_ScoreIsClampedSum ==
  sentiment # Pending =>
    LET t == Lower(text)
        pos == Present(positive_keywords, t)
        neg == Present(negative_keywords, t)
        S == SumOfWeights(positive_keywords, pos) + SumOfWeights(negative_keywords, neg)
    IN  /\ sentiment.score = (IF S > 100 THEN 100 ELSE IF S < -100 THEN -100 ELSE S)
        /\ Range(sentiment.positive_keywords) = pos
        /\ Range(sentiment.negative_keywords) = neg
        /\ NoDuplicates(sentiment.positive_keywords)
        /\ NoDuplicates(sentiment.negative_keywords)

\* "Beats" was scored: credited for "beat" and for "beats", case-insensitively.
C2_Witness ==
  /\ text = "Beats"
  /\ sentiment # Pending
  /\ sentiment.positive_keywords = <<"beat", "beats">>
  /\ sentiment.score = 24

\* C3: the label of one item is decided by the clamped score alone: >= 20
\* very_positive, 5..19 positive, <= -20 very_negative, -19..-5 negative, else
\* neutral; every score in [-100, 100] gets exactly one label.
C3_LabelThresholds ==
  /\ sentiment # Pending => LabelsMeeting(sentiment.score) = {sentiment.label}
  /\ \A score \in -100..100 : LabelsMeeting(score) = {SentimentLabel(score)}

\* The fraud headline was scored -45 and labelled very_negative.
C3_Witness ==
  /\ text = "shares plunge amid fraud investigation"
  /\ sentiment # Pending
  /\ sentiment.score = -45
  /\ sentiment.label = "very_negative"

\* C4: scoring never fails: every call returns a result with the four fields, and
\* a text with no lexicon keyword (the empty text included) gets score 0, label
\* neutral and two empty matched collections.
C4_NeverFails ==
  sentiment # Pending =>
        /\ DOMAIN sentiment = {"score", "label", "positive_keywords", "negative_keywords"}
        /\ sentiment.score \in Int
        /\ sentiment.label \in Labels
        /\ (Present(positive_keywords, Lower(text)) = {}
              /\ Present(negative_keywords, Lower(text)) = {})
             => /\ sentiment.score = 0
                /\ sentiment.label = "neutral"
                /\ sentiment.positive_keywords = <<>>
                /\ sentiment.negative_keywords = <<>>

\* The empty text was scored.
C4_Witness ==
  /\ text = ""
  /\ sentiment = [score |-> 0, label |-> "neutral",
                  positive_keywords |-> <<>>, negative_keywords |-> <<>>]

-----------------------------------------------------------------------------
(***************************************************************************)
(* Properties of the aggregator.                                           *)
(***************************************************************************)

Returned == newsResult # Pending
Aggregated == Returned /\ "error" \notin DOMAIN newsResult

RECURSIVE SumOfScores(_, _)
SumOfScores(news_list, is) ==
  IF is = {} THEN 0
  ELSE LET i == CHOOSE x \in is : TRUE
       IN  news_list[i].sentiment_score + SumOfScores(news_list, is \ {i})

TotalOf(news_list) == SumOfScores(news_list, DOMAIN news_list)

\* The labels whose aggregate threshold condition the mean total/n meets.
OverallLabelsMeeting(total, n) ==
  {l \in Labels :
     \/ l = "very_positive" /\ total >= 15 * n
     \/ l = "positive" /\ 5 * n <= total /\ total < 15 * n
     \/ l = "very_negative" /\ total <= -15 * n
     \/ l = "negative" /\ -15 * n < total /\ total <= -5 * n
     \/ l = "neutral" /\ -5 * n < total /\ total < 5 * n}

\* C5: the aggregator considers exactly the first min(n, 5) of the n entries
\* supplied, in the supplied order, scores only the title of each, and forwards
\* title, published time and link unchanged at the same position (an entry
\* without a published time is forwarded with 'N/A').
C5_FirstFiveForwarded ==
  Returned =>
    /\ Len(newsResult.news) = (IF Len(entries) < 5 THEN Len(entries) ELSE 5)
    /\ newsResult.news_count = Len(newsResult.news)
    /\ \A i \in 1..Len(newsResult.news) :
         LET item == newsResult.news[i]
             scored == analyze_sentiment(entries[i].title)
         IN  /\ item.title = entries[i].title
             /\ item.link = entries[i].link
             /\ "published" \in DOMAIN entries[i] => item.published = entries[i].published
             /\ "published" \notin DOMAIN entries[i] => item.published = "N/A"
             /\ item.sentiment_score = scored.score
             /\ item.sentiment_label = scored.label
             /\ item.positive_keywords = scored.positive_keywords
             /\ item.negative_keywords = scored.negative_keywords

\* Six entries were supplied, the sixth unlike the first, and five were returned.
C5_Witness ==
  /\ Returned
  /\ Len(entries) = 6
  /\ entries[6] # entries[1]
  /\ entries[5] # entries[6]
  /\ "published" \notin DOMAIN entries[2]
  /\ newsResult.news_count = 5

\* C6 as stated: the reported average score is the arithmetic mean of the item
\* scores (0 without items), and the overall label follows the aggregate
\* thresholds on that mean.
C6_AverageIsMean ==
  Returned =>
    LET news_list == newsResult.news
        n == Len(news_list)
        total == TotalOf(news_list)
        overall == newsResult.overall_sentiment
    IN  IF n = 0
        THEN overall.score = 0 /\ overall.label = "neutral"
        ELSE /\ overall.score * n = 10 * total
             /\ OverallLabelsMeeting(total, n) = {overall.label}

\* C6 as amended: the reported average score is the arithmetic mean of the item
\* scores rounded to one decimal place (a tie to the even tenth), 0 without
\* items; the overall label follows the aggregate thresholds on the unrounded
\* mean.
C6_AverageIsRoundedMean ==
  Returned =>
    LET news_list == newsResult.news
        n == Len(news_list)
        total == TotalOf(news_list)
        overall == newsResult.overall_sentiment
        \* twice the distance from the mean, in units of 1/(10 n)
        off == 2 * (overall.score * n - 10 * total)
    IN  IF n = 0
        THEN overall.score = 0 /\ overall.label = "neutral"
        ELSE /\ -n <= off /\ off <= n
             /\ (off = n \/ off = -n) => overall.score % 2 = 0
             /\ OverallLabelsMeeting(total, n) = {overall.label}

\* Four items with scores 17, 0, 0, 0: the mean 4.25 is reported as 4.2.
C6_Witness ==
  /\ Aggregated
  /\ newsResult.news_count = 4
  /\ TotalOf(newsResult.news) = 17
  /\ newsResult.overall_sentiment.score = 42
  /\ newsResult.overall_sentiment.label = "neutral"

\* C7: over a non-empty item list, positive_count, negative_count and
\* neutral_count are the numbers of items with score > 0, < 0 and = 0; they add
\* up to the number of considered items (at most 5) and none is negative.
C7_CountsPartition ==
  (Returned /\ entries # <<>>) =>
    LET news_list == newsResult.news
        overall == newsResult.overall_sentiment
        having(P(_)) == Cardinality({i \in DOMAIN news_list : P(news_list[i].sentiment_score)})
        pos(x) == x > 0
        neg(x) == x < 0
        zero(x) == x = 0
    IN  /\ overall.positive_count = having(pos)
        /\ overall.negative_count = having(neg)
        /\ overall.neutral_count = having(zero)
        /\ overall.positive_count + overall.negative_count + overall.neutral_count
             = Len(news_list)
        /\ Len(news_list) <= 5
        /\ overall.positive_count >= 0
        /\ overall.negative_count >= 0
        /\ overall.neutral_count >= 0

\* Five items, two positive, two negative and one neutral.
C7_Witness ==
  /\ Aggregated
  /\ newsResult.news_count = 5
  /\ newsResult.overall_sentiment.positive_count = 2
  /\ newsResult.overall_sentiment.negative_count = 2
  /\ newsResult.overall_sentiment.neutral_count = 1

-----------------------------------------------------------------------------
(***************************************************************************)
(* Properties of the indicator engine.                                     *)
(***************************************************************************)

TrendReturned == trendResult # Pending
HasSnapshot == TrendReturned /\ "error" \notin DOMAIN trendResult

InRsiRange(x) == QLeq(Q(0, 1), x) /\ QLeq(x, Q(100, 1))

\* The last RsiWindow bars of the history never fall / rise somewhere.
LastWindow == (Len(history) - RsiWindow + 2)..Len(history)
NoFallInWindow == \A i \in LastWindow : history[i].Close >= history[i - 1].Close
RiseInWindow == \E i \in LastWindow : history[i].Close > history[i - 1].Close

\* C8: on an empty price series the engine returns the no-data error and no
\* indicator field, after a single fetch; on a non-empty series it returns a
\* snapshot and no error.
C8_EmptyIsNoData ==
  /\ fetches <= 1
  /\ (TrendReturned /\ fetch = "ok") =>
       /\ fetches = 1
       /\ history = <<>> => trendResult = [error |-> "no_data"]
       /\ history # <<>> =>
            /\ "error" \notin DOMAIN trendResult
            /\ {"current_price", "ma5", "ma20", "ma60", "rsi"} \subseteq DOMAIN trendResult
            /\ trendResult.current_price = Q(history[Len(history)].Close, 1)

\* The provider returned no bar and the call returned the no-data error.
C8_Witness ==
  /\ fetch = "ok"
  /\ history = <<>>
  /\ fetches = 1
  /\ trendResult = [error |-> "no_data"]

\* C9: in the snapshot of a non-empty series of length L, rsi is absent if and
\* only if L < 14 (so it is present for a falling and for a flat series of 14
\* bars or more).
C9_RsiAbsentIffShort ==
  HasSnapshot => (trendResult.rsi = None <=> Len(history) < 14)

\* C10: for a series of at least 14 bars the rsi value lies in [0, 100], both as
\* computed (current_rsi) and as returned when present, with a zero average loss
\* (replaced by 1e-10) and with a zero average gain.
C10_RsiInRange ==
  /\ HasSnapshot /\ trendResult.rsi # None => InRsiRange(trendResult.rsi)
  /\ (history # <<>> /\ CurrentRsi(history) # None) => InRsiRange(CurrentRsi(history))

\* At least 14 bars, none of the last 14 falling and one rising: the average loss
\* is zero and rsi was returned, below 100.
C10_Witness ==
  /\ HasSnapshot
  /\ Len(history) >= 14
  /\ NoFallInWindow
  /\ RiseInWindow
  /\ trendResult.rsi # None
  /\ ~QLeq(Q(100, 1), trendResult.rsi)

HistoryLen == Len(history)

\* The arithmetic mean of the last n closes of the history.
MeanOfLast(n) ==
  QDiv(SumRange(CloseOf(history), HistoryLen - n + 1, HistoryLen), Q(n, 1))

MaField(n) ==
  IF n = 5 THEN trendResult.ma5 ELSE IF n = 20 THEN trendResult.ma20 ELSE trendResult.ma60

\* C11: in the snapshot of a non-empty series of L bars, for n in {5, 20, 60},
\* ma<n> is absent if and only if L < n, and when present it is the arithmetic
\* mean of the last n closes (a mean of 0 included).
C11_MovingAveragePresence ==
  HasSnapshot =>
    \A n \in {5, 20, 60} :
      /\ MaField(n) = None <=> HistoryLen < n
      /\ MaField(n) # None => QEq(MaField(n), MeanOfLast(n))

\* The arithmetic mean of the n closes ending at bar i of the history.
MeanEndingAt(n, i) == QDiv(SumRange(CloseOf(history), i - n + 1, i), Q(n, 1))

\* The 5-bar mean is at or below, and strictly above, the 20-bar mean at bar i.
ShortAtOrBelowLong(i) == QLeq(MeanEndingAt(5, i), MeanEndingAt(20, i))
ShortAboveLong(i) == ~QLeq(MeanEndingAt(5, i), MeanEndingAt(20, i))
ShortAtOrAboveLong(i) == QLeq(MeanEndingAt(20, i), MeanEndingAt(5, i))
ShortBelowLong(i) == ~QLeq(MeanEndingAt(20, i), MeanEndingAt(5, i))

\* C12: the cross signal follows the two-bar edge rule.  With L >= 21 bars it is
\* golden_cross exactly when the 5-bar mean is at or below the 20-bar mean at the
\* second-to-last bar and strictly above it at the last bar, dead_cross exactly
\* when it is at or above and then strictly below, and absent otherwise; with
\* L < 21 it is absent.
C12_CrossIsEdgeRule ==
  HasSnapshot =>
    IF HistoryLen >= 21
    THEN /\ trendResult.cross_signal = GoldenCross
              <=> (ShortAtOrBelowLong(HistoryLen - 1) /\ ShortAboveLong(HistoryLen))
         /\ trendResult.cross_signal = DeadCross
              <=> (ShortAtOrAboveLong(HistoryLen - 1) /\ ShortBelowLong(HistoryLen))
         /\ trendResult.cross_signal \in {GoldenCross, DeadCross, None}
    ELSE trendResult.cross_signal = None

\* The Bollinger width at the last bar is zero: there are 20 bars and the last
\* 20 closes are the same, so that their standard deviation is 0.
ZeroWidth ==
  /\ HistoryLen >= 20
  /\ \A i \in (HistoryLen - 19)..HistoryLen : history[i].Close = history[HistoryLen].Close

\* C13: for a series of at least 20 bars whose Bollinger width at the last bar
\* is zero, bb_position is present and is exactly 50.
C13_ZeroWidthIsFifty ==
  (HasSnapshot /\ ZeroWidth) => trendResult.bb_position = Q(50, 1)

\* Twenty equal closes after a different one, and the position returned is 50.
C13_Witness ==
  /\ HasSnapshot
  /\ ZeroWidth
  /\ history[1].Close # history[HistoryLen].Close
  /\ trendResult.bb_position = Q(50, 1)

\* C14: in the snapshot of a non-empty series of L bars, bb_position is absent if
\* and only if L < 20 (so it is present, with value 0, when the last close lies on
\* the lower band).
C14_BandPositionAbsentIffShort ==
  HasSnapshot => (trendResult.bb_position = None <=> HistoryLen < 20)

\* C15: in the snapshot of a non-empty series of L bars, macd, macd_signal and
\* macd_histogram are all absent when L < 26 and all present when L >= 26 (the
\* value 0 of a flat series included): never one without the others.
C15_MacdTogether ==
  HasSnapshot =>
    IF HistoryLen < 26
    THEN /\ trendResult.macd = None
         /\ trendResult.macd_signal = None
         /\ trendResult.macd_histogram = None
    ELSE /\ trendResult.macd # None
         /\ trendResult.macd_signal # None
         /\ trendResult.macd_histogram # None

\* A flat series of 26 bars or more, whose three MACD values are 0 and returned.
C15_Witness ==
  /\ HasSnapshot
  /\ HistoryLen >= 26
  /\ \A i \in 1..HistoryLen : history[i].Close = history[1].Close
  /\ trendResult.macd = Q(0, 1)
  /\ trendResult.macd_signal = Q(0, 1)
  /\ trendResult.macd_histogram = Q(0, 1)

\* The bars of the history from which df.tail(n) is taken.
Trailing(n) == (IF HistoryLen > n THEN HistoryLen - n + 1 ELSE 1)..HistoryLen

\* The three denominators that are not positive: the first close, the least low
\* of the trailing 30 bars, and the mean volume of the trailing 20 bars.
FirstCloseNotPositive == history[1].Close <= 0
TrailingLowNotPositive == \E i \in Trailing(30) : history[i].Low <= 0
TrailingVolumeNotPositive ==
  SumInts([i \in 1..HistoryLen |-> history[i].Volume],
          IF HistoryLen > 20 THEN HistoryLen - 19 ELSE 1, HistoryLen) <= 0

\* C16: on a non-empty series the call returns a snapshot in which period_return
\* is 0 when the first close is not positive, volatility is 0 when the least low
\* of the trailing 30 bars is not positive, and volume_ratio is 0 when the mean
\* volume of the trailing 20 bars is not positive; none of the three is the
\* outcome of a division by zero.
C16_DegenerateDenominators ==
  (TrendReturned /\ fetch = "ok" /\ history # <<>>) =>
    /\ HasSnapshot
    /\ FirstCloseNotPositive => trendResult.period_return = Q(0, 1)
    /\ TrailingLowNotPositive => trendResult.volatility = Q(0, 1)
    /\ TrailingVolumeNotPositive => trendResult.volume_ratio = Q(0, 1)
    /\ NaN \notin {trendResult.period_return, trendResult.volatility, trendResult.volume_ratio}

\* A series with the three denominators not positive, and the three fields 0.
C16_Witness ==
  /\ HasSnapshot
  /\ FirstCloseNotPositive
  /\ TrailingLowNotPositive
  /\ TrailingVolumeNotPositive
  /\ trendResult.period_return = Q(0, 1)
  /\ trendResult.volatility = Q(0, 1)
  /\ trendResult.volume_ratio = Q(0, 1)

\* C17: computing a snapshot does not mutate the price series: after the call the
\* frame holds the bars the provider returned, each with the fields open, high,
\* low, close and volume and no other (the timestamp is the position of the bar).
C17_SeriesNotMutated ==
  (TrendReturned /\ fetch = "ok") =>
    /\ df = history
    /\ \A i \in 1..Len(df) : DOMAIN df[i] = {"Open", "High", "Low", "Close", "Volume"}

-----------------------------------------------------------------------------
(***************************************************************************)
(* Properties of the peer comparison.                                      *)
(***************************************************************************)

PeersReturned == peerResult # Pending

\* The candidate peers of the call, and those of them whose lookup succeeds, in
\* the order of the candidates.
Candidates ==
  CandidatePeers(PeerList(DictGet(info, "sector", "N/A"),
                          DictGet(info, "industry", "N/A")), ticker)
Succeeding ==
  LET Succeeds(t) == t \notin failing
  IN  SelectSeq(Candidates, Succeeds)

ReturnedTickers == [i \in 1..Len(peerResult.peers) |-> peerResult.peers[i].ticker]

\* C18: whatever peer lookups fail, a call whose own lookup succeeded returns a
\* result; its peers are exactly the candidates whose lookup succeeded, in
\* candidate order, peer_count is their number, there are at most 4 of them and
\* the company's own ticker is not among them.
C18_FailingPeersOmitted ==
  (PeersReturned /\ ownLookup = "ok") =>
    /\ "error" \notin DOMAIN peerResult
    /\ ReturnedTickers = Succeeding
    /\ peerResult.peer_count = Len(peerResult.peers)
    /\ Len(peerResult.peers) <= 4
    /\ \A i \in 1..Len(peerResult.peers) : peerResult.peers[i].ticker # ticker

\* The company is in its industry's list of five; a candidate's lookup failed
\* before one that succeeded, and the call returned the peers that succeeded.
C18_Witness ==
  /\ PeersReturned
  /\ ownLookup = "ok"
  /\ ticker \in TickersOf(PeerList(DictGet(info, "sector", "N/A"),
                                  DictGet(info, "industry", "N/A")))
  /\ Len(Candidates) = 4
  /\ \E i, j \in 1..Len(Candidates) :
       i < j /\ Candidates[i] \in failing /\ Candidates[j] \notin failing
  /\ peerResult.peer_count >= 1
  /\ peerResult.peer_count < 4

-----------------------------------------------------------------------------
(***************************************************************************)
(* Properties of the aggregator: labels and counts.                        *)
(***************************************************************************)

\* The number of items of the returned list that meet P.
ItemsMeeting(P(_)) ==
  Cardinality({i \in DOMAIN newsResult.news : P(newsResult.news[i])})

LabelledPositive(item) == item.sentiment_label \in {"positive", "very_positive"}
LabelledNegative(item) == item.sentiment_label \in {"negative", "very_negative"}
LabelledNeutral(item) == item.sentiment_label = "neutral"
ScoredPositive(item) == item.sentiment_score > 0
ScoredNegative(item) == item.sentiment_score < 0
NeutralAboveZero(item) == LabelledNeutral(item) /\ item.sentiment_score > 0
NeutralBelowZero(item) == LabelledNeutral(item) /\ item.sentiment_score < 0
NeutralAtZero(item) == LabelledNeutral(item) /\ item.sentiment_score = 0

\* C19 as stated: labels and counts agree.  neutral_count is the number of items
\* labelled neutral, every item counted positive (score > 0) is labelled positive
\* or very_positive, and every item counted negative (score < 0) is labelled
\* negative or very_negative.
C19_LabelsAgreeWithCounts ==
  Aggregated =>
    /\ newsResult.overall_sentiment.neutral_count = ItemsMeeting(LabelledNeutral)
    /\ \A i \in DOMAIN newsResult.news :
         /\ ScoredPositive(newsResult.news[i]) => LabelledPositive(newsResult.news[i])
         /\ ScoredNegative(newsResult.news[i]) => LabelledNegative(newsResult.news[i])

\* C19 amended: the counts go by the sign of the score and the labels by the
\* thresholds 5 and -5.  Every item labelled positive or very_positive is counted
\* positive and every item labelled negative or very_negative is counted
\* negative; an item labelled neutral is counted positive when its score is
\* 1..4, negative when it is -4..-1, and neutral only when it is 0.
C19_LabelsWithinCounts ==
  Aggregated =>
    /\ \A i \in DOMAIN newsResult.news :
         /\ LabelledPositive(newsResult.news[i]) => ScoredPositive(newsResult.news[i])
         /\ LabelledNegative(newsResult.news[i]) => ScoredNegative(newsResult.news[i])
    /\ newsResult.overall_sentiment.positive_count
         = ItemsMeeting(LabelledPositive) + ItemsMeeting(NeutralAboveZero)
    /\ newsResult.overall_sentiment.negative_count
         = ItemsMeeting(LabelledNegative) + ItemsMeeting(NeutralBelowZero)
    /\ newsResult.overall_sentiment.neutral_count = ItemsMeeting(NeutralAtZero)

\* Four items: one labelled positive, one of score 2 and one of score -3, both
\* labelled neutral, and one of score 0; two are counted positive, one negative
\* and one neutral.
C19_Witness ==
  /\ Aggregated
  /\ newsResult.news_count = 4
  /\ ItemsMeeting(LabelledPositive) = 1
  /\ ItemsMeeting(NeutralAboveZero) = 1
  /\ ItemsMeeting(NeutralBelowZero) = 1
  /\ ItemsMeeting(NeutralAtZero) = 1
  /\ newsResult.overall_sentiment.positive_count = 2
  /\ newsResult.overall_sentiment.negative_count = 1
  /\ newsResult.overall_sentiment.neutral_count = 1

-----------------------------------------------------------------------------
(***************************************************************************)
(* Properties of the read loop.                                            *)
(***************************************************************************)

Stopped == mainLoop = "stopped"

\* The stream is exhausted: every line has been consumed.
InputExhausted == consumed = Len(typed)

\* A quit command is among the lines consumed.
QuitConsumed ==
  \E i \in 1..consumed :
    /\ "text" \in DOMAIN typed[i]
    /\ Lower(Strip(typed[i].text)) \in {"quit", "exit", "종료"}

\* The agent was called for no quit command and no blank input.
NoCallForQuitOrBlank ==
  \A i \in 1..Len(calls) :
    /\ calls[i].user_input # ""
    /\ Lower(calls[i].user_input) \notin {"quit", "exit", "종료"}

\* Only a quit command ends the loop: not a failure of the agent, not an
\* undecodable line.
OnlyQuitStops == Stopped <=> QuitConsumed

\* C20: the read loop terminates.  Once a quit command has been read or the
\* input stream is exhausted (EOF), the loop eventually stops; the agent is
\* never called for a quit command or a blank input, and a failure of the agent
\* on one input does not end the loop.
C20_LoopTerminates ==
  /\ [](NoCallForQuitOrBlank /\ OnlyQuitStops)
  /\ (QuitConsumed \/ InputExhausted) ~> Stopped

=============================================================================
